---- MODULE Spec2Model ----
(***************************************************************************)
(* BrainPlus interpreter (src/lib/brainplus.py): the Interpreter object,   *)
(* its run loop and its instruction handlers, as a state machine.          *)
(*                                                                         *)
(* A source text is a sequence of one-character strings; Python's 0-based  *)
(* source[i] is source[i + 1] here (operator At).  A Python exception      *)
(* that leaves run() is pc = "faulted" with its kind in fault.             *)
(***************************************************************************)
EXTENDS Integers, Sequences, FiniteSets, TLC

VARIABLES
    source,               \* self.source
    functions,            \* self.functions (0-based offsets, in a 1-based sequence)
    stack,                \* self.stack.stack (top is the last element)
    memory,               \* self.memory, a function on 0 .. memory_size - 1
    memory_pointer,       \* self.memory_pointer
    instruction_pointer,  \* self.instruction_pointer
    cycle_limit,          \* self.cycle_limit
    cycle_count,          \* self.cycle_count
    need_to_exit,         \* self.need_to_exit
    input_function,       \* TRUE iff an input callback was supplied
    output_function,      \* TRUE iff an output callback was supplied
    on_execute,           \* TRUE iff a trace callback was supplied
    pc,                   \* "idle" (outside run()), "running", "faulted", "rejected"
    result,               \* how the last run() returned: "none", "halted", "exhausted", "cycle-limited"
    fault,                \* the exception that left run() or __init__, "" if none
    runs,                 \* number of run() calls so far
    dispatched,           \* history: number of handlers entered (whether they returned or raised)
    hook_log,             \* history: what the trace callback saw, in order
    output,               \* history: values passed to the output callback, in order
    prev,                 \* history: the engine as it was when the last handler was entered
    frames,               \* history: for each stack entry, "loop" or "call" (who pushed it)
    called,               \* history: a declared function has been called
    call_in_loop,         \* history: a call or a return was executed while a loop frame was open
    pending,              \* history: the declared calls entered and not yet left by an "@"
    inputs,               \* history: values the input callback returned, in order
    fault_info,           \* what the exception in fault carries (its arguments)
    api                   \* the last call of clone / get_function / set_function /
                          \* source_no_functions on this engine, and what it returned

vars == <<source, functions, stack, memory, memory_pointer, instruction_pointer,
          cycle_limit, cycle_count, need_to_exit, input_function, output_function,
          on_execute, pc, result, fault, runs, dispatched, hook_log, output, prev,
          frames, called, call_in_loop, pending, inputs, fault_info, api>>

\* ------------------------------------------------------------------ bounds

\* Longest source text enumerated exhaustively over Alphabet.
MaxLen == 2
\* No handler is entered once cycle_count reaches this (caps runs with cycle_limit 0).
MaxCycles == 24
\* run() is called at most this many times on one engine.
MaxRuns == 2
MaxIndex == 3
\* Number of tape cells (self.memory_size, 30000 in the source, scaled down).
memory_size == 3

\* ------------------------------------------------------- program constants

max_functions == 26
max_memory_value == 255

\* The cycle limit test_loop_with_inner constructs its Interpreter with.
test_cycle_limit == 2000

Letters ==
    <<"a", "b", "c", "d", "e", "f", "g", "h", "i", "j", "k", "l", "m",
      "n", "o", "p", "q", "r", "s", "t", "u", "v", "w", "x", "y", "z">>

LetterSet == {Letters[i] : i \in 1 .. Len(Letters)}

\* ord(instruction) - ord('a')
function_no(instruction) ==
    (CHOOSE i \in 1 .. Len(Letters) : Letters[i] = instruction) - 1

\* The keys of self.instruction_dict.
instruction_set ==
    {".", ",", ">", "<", "+", "-", "[", "]", "@"} \cup LetterSet

\* ------------------------------------------------------------ source texts

\* Characters of the exhaustively enumerated sources; "#" is not an instruction.
Alphabet == {">", "<", "+", "-", ".", ",", "[", "]", "@", "a", "#"}

AllShort == UNION {[1 .. n -> Alphabet] : n \in 0 .. MaxLen}

Delimiters(n) == [i \in 1 .. n |-> "@"]

\* Longer sources: the programs of src/test/test_interpreter.py and programs
\* that nest loops, calls and returns.
Curated ==
    { <<"+", "+", "+", "[", ">", "+", "<", "-", "]", ".">>,
      <<"[", "+", "[", ".", "]", "]", ".">>,
      <<"+", "[", "+", "[", ".", "+", "]", "]", ".">>,
      <<",", ">", ",">>,
      <<">", ">", "<", "<">>,
      <<">", ">", ">", ">", "+", "<", "<", "<", "<">>,
      <<"+", ">", "+", "+", "+", "-">>,
      <<"a", "@", "+", "b", "@", "+">>,
      <<"a", "b", "c", "d", "@", "@", "@", "@", "+">>,
      <<"+", "[", "[", "-", "]", "]", "+">>,
      <<"+", "[", "-", "[", "+", "]", "]", ".">>,
      <<"+", "[", ">", "[", "#", "[", "]", "]", "<", "-", "]">>,
      <<"[", "[", "]", "#", "]", "+", "@", "+">>,
      <<"[", "[", "]", "+">>,
      <<"+", "[", "-", "]", "]", "+">>,
      <<"a", "+", "@", "+", "[", "-", "]", "@", "+">>,
      <<"a", "a", ".", "@", "+", "b", "@", "-", "-", "@">>,
      <<"+", "[", "a", "-", "]", "@", ">", "+", "@">>,
      <<"+", "[", "a", "]", ".", "@", "-">>,
      <<"+", "[", "@", "]", "+">>,
      <<"a", "@", "+", "[", "@", "]">>,
      <<"a", "+", "[", "@", "-", "]">>,
      <<"a", "@", "+", "[", "-", "]">>,
      <<"a", "[", "@", "]", "@">>,
      <<"a", ".", "@", "b", "+", "@", "+", "[", "-", "]", "@">>,
      <<"a", "+", "@", ",", "[", "-", "]", "@">>,
      <<"-", "+", ",", "+", ".", "-", ".">>,
      <<">", "-", "+", "+", "<", ",", "+", ".">>,
      <<"z", "c", "+", "@", "@">>,
      <<"a", "@", "a">>,
      <<"+", "[", "]">>,
      <<"-", "[", "+", "]">>,
      <<"a", "@", "]", "@">>,
      <<"b", "@", "+">>,
      <<"a", "@", "+">>,
      <<"+", "@", "+">>,
      <<">", ">", ">">>,
      <<"<", "+", "<">>,
      <<",", "[", ".", "-", "]">>,
      <<"+", "[", "#", "]">>,
      <<"[", "#", "]", "#">>,
      <<"+", "[", "[">>,
      <<"[", "]", "]">>,
      <<">", "+", ".", "<", ".">>,
      <<"a", "@", "+", "[", "a">>,
      <<".", "+", "@", "-">>,
      <<"+", "+", "+">>,
      <<"+", "+", "@", ".", ".">>,
      <<".", "@", ".", ".", ".", ".", "@", "+", ".", "+", "@", "[", "+", "]", ".">>,
      <<".", "@", "+">>,
      <<"a", "@", "@", "b">>,
      Delimiters(max_functions),
      Delimiters(max_functions + 1) }

Sources == AllShort \cup Curated

\* The program of test_loop_with_inner.
loop_with_inner == <<"+", "[", "+", "[", ".", "+", "]", "]", ".">>

\* Values the input callback may return (a byte, per its contract).
InputValues == {0, 1, max_memory_value}

\* The callbacks are supplied together or not at all: each handler reads only
\* its own callback, so the mixed cases add no behaviour.
CallbackChoices == BOOLEAN

\* cycle_limit arguments: 0 is "no limit".
CycleLimits == {0, 2, 7}

\* The cycle_limit arguments given with source src: test_loop_with_inner is
\* also constructed as its test constructs it.
CycleLimitsOf(src) ==
    IF src = loop_with_inner THEN CycleLimits \cup {test_cycle_limit} ELSE CycleLimits

\* Runs are followed for MaxCycles cycles; the run of test_loop_with_inner under
\* its own limit is followed to its end.
CycleCap ==
    IF cycle_limit = test_cycle_limit THEN test_cycle_limit ELSE MaxCycles

\* ----------------------------------------------------------------- helpers

\* self.source[i]
At(i) == source[i + 1]

\* Mutant of pop: returns the top entry and deletes nothing.
pop_keeps(s) == s

\* Stack.push / Stack.pop / Stack.peek / Stack.is_empty
pop(s) == SubSeq(s, 1, Len(s) - 1)
push(s, thing) == Append(s, thing)
peek(s) == s[Len(s)]
is_empty(s) == Len(s) = 0

\* find_functions: the offset one past every "@", left to right.
RECURSIVE FindFrom(_, _)
FindFrom(src, found) ==
    IF found > Len(src) THEN <<>>
    ELSE IF src[found] = "@" THEN <<found>> \o FindFrom(src, found + 1)
    ELSE FindFrom(src, found + 1)

find_functions(src) == FindFrom(src, 1)

\* Mutant of skip_to_loop_end: stops at the first "]", nested or not.
RECURSIVE skip_to_first_close(_, _)
skip_to_first_close(ip, cnt) ==
    IF cnt > 0 /\ ip < Len(source)
    THEN IF ip + 1 >= Len(source)
         THEN [ip |-> ip + 1, raised |-> TRUE]
         ELSE skip_to_first_close(ip + 1, IF At(ip + 1) = "]" THEN 0 ELSE cnt)
    ELSE [ip |-> ip, raised |-> FALSE]

\* Mutant of skip_to_loop_end: running past the end of the source is not an error.
RECURSIVE skip_to_loop_end_unchecked(_, _)
skip_to_loop_end_unchecked(ip, cnt) ==
    IF cnt > 0 /\ ip < Len(source)
    THEN IF ip + 1 >= Len(source)
         THEN [ip |-> ip + 1, raised |-> FALSE]
         ELSE skip_to_loop_end_unchecked(ip + 1,
                  IF At(ip + 1) = "[" THEN cnt + 1
                  ELSE IF At(ip + 1) = "]" THEN cnt - 1
                  ELSE cnt)
    ELSE [ip |-> ip, raised |-> FALSE]

\* skip_to_loop_end: the scan from instruction_pointer ip with bracket_cnt cnt.
\* Reading self.source[len(self.source)] raises IndexError.
RECURSIVE skip_to_loop_end(_, _)
skip_to_loop_end(ip, cnt) ==
    IF cnt > 0 /\ ip < Len(source)
    THEN IF ip + 1 >= Len(source)
         THEN [ip |-> ip + 1, raised |-> TRUE]
         ELSE skip_to_loop_end(ip + 1,
                  IF At(ip + 1) = "[" THEN cnt + 1
                  ELSE IF At(ip + 1) = "]" THEN cnt - 1
                  ELSE cnt)
    ELSE [ip |-> ip, raised |-> FALSE]

NoPrev ==
    [instruction |-> "", ip |-> 0, stack |-> <<>>, memory |-> [i \in 0 .. memory_size - 1 |-> 0],
     mp |-> 0, halt |-> FALSE, cycles |-> 0, hooks |-> 0, outputs |-> 0,
     pending |-> <<>>]

\* The engine as a handler finds it.
Snapshot(instruction) ==
    [instruction |-> instruction, ip |-> instruction_pointer, stack |-> stack,
     memory |-> memory, mp |-> memory_pointer, halt |-> need_to_exit,
     cycles |-> cycle_count, hooks |-> Len(hook_log), outputs |-> Len(output),
     pending |-> pending]

\* No exception: nothing carried.
NoInfo ==
    [character |-> "", has_offset |-> FALSE, offset |-> 0]

\* What an exception that leaves run() carries: the KeyError of the handler
\* lookup has the looked-up character as its argument; an IndexError has only
\* its message.  Neither carries a source offset.
exception_info(c, kind) ==
    IF kind = "KeyError"
    THEN [character |-> c, has_offset |-> FALSE, offset |-> 0]
    ELSE NoInfo

\* A value of a configuration attribute of an Interpreter: an integer, a
\* callback, a string, or None.
IntValue(n) == [kind |-> "int", num |-> n, name |-> ""]
StrValue(t) == [kind |-> "str", num |-> 0, name |-> t]
CallbackValue(t) == [kind |-> "callback", num |-> 0, name |-> t]
NoneValue == [kind |-> "none", num |-> 0, name |-> ""]

\* No Interpreter returned.
NoEngine ==
    [made |-> FALSE, source |-> <<>>, functions |-> <<>>,
     cycle_limit |-> NoneValue, input_function |-> NoneValue,
     output_function |-> NoneValue, on_execute |-> NoneValue,
     stack |-> <<>>, memory_pointer |-> 0, instruction_pointer |-> 0,
     cycle_count |-> 0, need_to_exit |-> FALSE, cells_zero |-> TRUE]

NoOverrides ==
    [cycle_limit |-> NoneValue, input_function |-> NoneValue,
     output_function |-> NoneValue, on_execute |-> NoneValue]

\* No call made yet.
NoCall ==
    [call |-> "none", index |-> 0, body |-> <<>>, overrides |-> NoOverrides,
     raised |-> "", text |-> <<>>, engine |-> NoEngine]

\* ------------------------------------------------------------------- Init

\* Mutant of too_many_functions: the 26th function is refused as well.
too_many_functions_at_limit(fs) ==
    Len(fs) >= max_functions

\* find_functions: "Error: too many functions declared".
too_many_functions(fs) ==
    Len(fs) > max_functions

\* Interpreter.__init__
Init ==
    /\ source \in Sources
    /\ functions = find_functions(source)
    /\ stack = <<>>
    /\ memory = [i \in 0 .. memory_size - 1 |-> 0]
    /\ memory_pointer = 0
    /\ instruction_pointer = 0
    /\ cycle_limit \in CycleLimitsOf(source)
    /\ cycle_count = 0
    /\ need_to_exit = FALSE
    /\ \E given \in CallbackChoices :
           /\ input_function = given
           /\ output_function = given
           /\ on_execute = given
    /\ pc = IF too_many_functions(functions) THEN "rejected" ELSE "idle"
    /\ fault = IF too_many_functions(functions) THEN "Exception" ELSE ""
    /\ result = "none"
    /\ runs = 0
    /\ dispatched = 0
    /\ hook_log = <<>>
    /\ output = <<>>
    /\ prev = NoPrev
    /\ frames = <<>>
    /\ called = FALSE
    /\ call_in_loop = FALSE
    /\ pending = <<>>
    /\ inputs = <<>>
    /\ fault_info = NoInfo
    /\ api = NoCall

\* --------------------------------------------------------------- run loop

\* Mutant of LoopCondition: the halt flag is not tested.
LoopCondition_ignores_exit ==
    instruction_pointer < Len(source)

\* Interpreter.run, the while condition.
LoopCondition ==
    instruction_pointer < Len(source) /\ ~need_to_exit

\* Mutant of LimitReached: one cycle too late.
LimitReached_late ==
    cycle_limit # 0 /\ cycle_count > cycle_limit

\* Interpreter.run, the cycle limit test at the top of the loop body.
LimitReached ==
    cycle_limit # 0 /\ cycle_count >= cycle_limit

\* run() fetches instruction c and execute_instruction looks its handler up.
Fetch(c) ==
    /\ pc = "running"
    /\ LoopCondition
    /\ ~LimitReached
    /\ cycle_count < CycleCap
    /\ At(instruction_pointer) = c

\* History of the calls in progress.  Each entry is a declared call: site is the
\* offset of its letter, below the stack before it, open the number of loop frames
\* pushed since and still on the stack, stolen whether a "]" has popped a frame
\* that was not pushed since the call.  An "@" that pops with open = 0 ends the entry.
PendingAfter(c, stack_after) ==
    LET n == Len(pending)
        top == pending[n]
    IN  IF c \in LetterSet /\ stack_after # stack
        THEN Append(pending, [site |-> instruction_pointer, below |-> stack,
                              open |-> 0, stolen |-> FALSE])
        ELSE IF n = 0 \/ stack_after = stack THEN pending
        ELSE IF c = "[" THEN [pending EXCEPT ![n].open = top.open + 1]
        ELSE IF top.open > 0 THEN [pending EXCEPT ![n].open = top.open - 1]
        ELSE IF c = "]" THEN [pending EXCEPT ![n].stolen = TRUE]
        ELSE SubSeq(pending, 1, n - 1)

\* Mutant of Executed: a "[" that skips its loop is not counted.
Executed_uncounted_skip(c) ==
    /\ hook_log' = IF on_execute
                   THEN Append(hook_log, [instruction |-> c,
                                          ip |-> instruction_pointer',
                                          mp |-> memory_pointer'])
                   ELSE hook_log
    /\ cycle_count' = IF c = "[" /\ memory[memory_pointer] = 0
                     THEN cycle_count
                     ELSE cycle_count + 1
    /\ dispatched' = dispatched + 1
    /\ prev' = Snapshot(c)
    /\ frames' = IF Len(stack') > Len(stack)
                 THEN Append(frames, IF c = "[" THEN "loop" ELSE "call")
                 ELSE IF Len(stack') < Len(stack) THEN pop(frames)
                 ELSE frames
    /\ called' = (called \/ (c \in LetterSet /\ stack' # stack))
    /\ call_in_loop' = (call_in_loop \/ (/\ c \in LetterSet \cup {"@"}
                                         /\ stack' # stack
                                         /\ \E k \in 1 .. Len(frames) : frames[k] = "loop"))
    /\ pending' = PendingAfter(c, stack')
    /\ UNCHANGED <<source, functions, cycle_limit, input_function, output_function,
                   on_execute, pc, result, fault, runs, fault_info, api>>

\* execute_instruction after the handler returned (the trace callback sees the
\* engine as the handler left it), then run()'s cycle_count increment.
Executed(c) ==
    /\ hook_log' = IF on_execute
                   THEN Append(hook_log, [instruction |-> c,
                                          ip |-> instruction_pointer',
                                          mp |-> memory_pointer'])
                   ELSE hook_log
    /\ cycle_count' = cycle_count + 1
    /\ dispatched' = dispatched + 1
    /\ prev' = Snapshot(c)
    /\ frames' = IF Len(stack') > Len(stack)
                 THEN Append(frames, IF c = "[" THEN "loop" ELSE "call")
                 ELSE IF Len(stack') < Len(stack) THEN pop(frames)
                 ELSE frames
    /\ called' = (called \/ (c \in LetterSet /\ stack' # stack))
    /\ call_in_loop' = (call_in_loop \/ (/\ c \in LetterSet \cup {"@"}
                                         /\ stack' # stack
                                         /\ \E k \in 1 .. Len(frames) : frames[k] = "loop"))
    /\ pending' = PendingAfter(c, stack')
    /\ UNCHANGED <<source, functions, cycle_limit, input_function, output_function,
                   on_execute, pc, result, fault, runs, fault_info, api>>

\* An exception raised inside a handler (or by the handler lookup) leaves run().
Raised(c, kind) ==
    /\ pc' = "faulted"
    /\ fault' = kind
    /\ fault_info' = exception_info(c, kind)
    /\ prev' = Snapshot(c)
    /\ UNCHANGED <<source, functions, cycle_limit, cycle_count, input_function,
                   output_function, on_execute, result, runs, hook_log,
                   frames, called, call_in_loop, pending, inputs, api>>

\* Mutant of RunCall: run() starts its count afresh.
RunCall_resets_count ==
    /\ pc = "idle"
    /\ runs < MaxRuns
    /\ pc' = "running"
    /\ runs' = runs + 1
    /\ cycle_count' = 0
    /\ UNCHANGED <<source, functions, stack, memory, memory_pointer, instruction_pointer,
                   cycle_limit, need_to_exit, input_function,
                   output_function, on_execute, result, fault, dispatched, hook_log,
                   output, prev, frames, called, call_in_loop, pending, inputs,
                   fault_info, api>>

\* The caller calls run().
RunCall ==
    /\ pc = "idle"
    /\ runs < MaxRuns
    /\ pc' = "running"
    /\ runs' = runs + 1
    /\ UNCHANGED <<source, functions, stack, memory, memory_pointer, instruction_pointer,
                   cycle_limit, cycle_count, need_to_exit, input_function,
                   output_function, on_execute, result, fault, dispatched, hook_log,
                   output, prev, frames, called, call_in_loop, pending, inputs,
                   fault_info, api>>

\* The while condition is false: run() returns.
RunReturn ==
    /\ pc = "running"
    /\ ~LoopCondition
    /\ pc' = "idle"
    /\ result' = IF need_to_exit THEN "halted" ELSE "exhausted"
    /\ UNCHANGED <<source, functions, stack, memory, memory_pointer, instruction_pointer,
                   cycle_limit, cycle_count, need_to_exit, input_function,
                   output_function, on_execute, fault, runs, dispatched, hook_log,
                   output, prev, frames, called, call_in_loop, pending, inputs,
                   fault_info, api>>

\* "Ending early due to cycle limit": break.
CycleLimitBreak ==
    /\ pc = "running"
    /\ LoopCondition
    /\ LimitReached
    /\ pc' = "idle"
    /\ result' = "cycle-limited"
    /\ UNCHANGED <<source, functions, stack, memory, memory_pointer, instruction_pointer,
                   cycle_limit, cycle_count, need_to_exit, input_function,
                   output_function, on_execute, fault, runs, dispatched, hook_log,
                   output, prev, frames, called, call_in_loop, pending, inputs,
                   fault_info, api>>

\* self.instruction_dict[instruction] raises KeyError.
UnknownInstruction ==
    \E c \in Alphabet \ instruction_set :
        /\ Fetch(c)
        /\ Raised(c, "KeyError")
        /\ UNCHANGED <<stack, memory, memory_pointer, instruction_pointer,
                       need_to_exit, dispatched, output>>

\* --------------------------------------------------------------- handlers

\* Mutant of instr_print: prints the first cell, wherever the pointer is.
instr_print_first_cell ==
    /\ Fetch(".")
    /\ output' = IF output_function
                 THEN Append(output, memory[0])
                 ELSE output
    /\ instruction_pointer' = instruction_pointer + 1
    /\ UNCHANGED <<stack, memory, memory_pointer, need_to_exit, inputs>>
    /\ Executed(".")

\* instr_print
instr_print ==
    /\ Fetch(".")
    /\ output' = IF output_function
                 THEN Append(output, memory[memory_pointer])
                 ELSE output
    /\ instruction_pointer' = instruction_pointer + 1
    /\ UNCHANGED <<stack, memory, memory_pointer, need_to_exit, inputs>>
    /\ Executed(".")

instr_input ==
    /\ Fetch(",")
    /\ IF input_function
       THEN \E v \in InputValues :
                /\ memory' = [memory EXCEPT ![memory_pointer] = v]
                /\ inputs' = Append(inputs, v)
       ELSE UNCHANGED <<memory, inputs>>
    /\ instruction_pointer' = instruction_pointer + 1
    /\ UNCHANGED <<stack, memory_pointer, need_to_exit, output>>
    /\ Executed(",")

\* Mutant of inc_memory_pointer: wraps to cell 0.
inc_memory_pointer_wraps(p) ==
    (p + 1) % memory_size

\* "do not allow overflow"
inc_memory_pointer(p) ==
    IF p < memory_size - 1 THEN p + 1 ELSE p

instr_inc_memory_pointer ==
    /\ Fetch(">")
    /\ memory_pointer' = inc_memory_pointer(memory_pointer)
    /\ instruction_pointer' = instruction_pointer + 1
    /\ UNCHANGED <<stack, memory, need_to_exit, output, inputs>>
    /\ Executed(">")

\* "do not allow underflow"
dec_memory_pointer(p) ==
    IF p - 1 < 0 THEN 0 ELSE p - 1

instr_dec_memory_pointer ==
    /\ Fetch("<")
    /\ memory_pointer' = dec_memory_pointer(memory_pointer)
    /\ instruction_pointer' = instruction_pointer + 1
    /\ UNCHANGED <<stack, memory, need_to_exit, output, inputs>>
    /\ Executed("<")

\* Mutant of inc_memory: saturates at max_memory_value.
inc_memory_saturates(v) ==
    IF v < max_memory_value THEN v + 1 ELSE v

\* "overflow": past max_memory_value the cell goes back to 0.
inc_memory(v) ==
    IF v < max_memory_value THEN v + 1 ELSE 0

instr_inc_memory ==
    /\ Fetch("+")
    /\ memory' = [memory EXCEPT ![memory_pointer] = inc_memory(memory[memory_pointer])]
    /\ instruction_pointer' = instruction_pointer + 1
    /\ UNCHANGED <<stack, memory_pointer, need_to_exit, output, inputs>>
    /\ Executed("+")

\* "underflow": below 0 the cell goes to max_memory_value.
dec_memory(v) ==
    IF v > 0 THEN v - 1 ELSE max_memory_value

instr_dec_memory ==
    /\ Fetch("-")
    /\ memory' = [memory EXCEPT ![memory_pointer] = dec_memory(memory[memory_pointer])]
    /\ instruction_pointer' = instruction_pointer + 1
    /\ UNCHANGED <<stack, memory_pointer, need_to_exit, output, inputs>>
    /\ Executed("-")

\* instr_loop_start, the cell is 0: skip_to_loop_end, then instruction_pointer + 1.
loop_start_skip ==
    /\ Fetch("[")
    /\ memory[memory_pointer] = 0
    /\ LET scan == skip_to_loop_end(instruction_pointer, 1) IN
         /\ ~scan.raised
         /\ instruction_pointer' = scan.ip + 1
    /\ UNCHANGED <<stack, memory, memory_pointer, need_to_exit, output, inputs>>
    /\ Executed("[")

\* instr_loop_start, the cell is 0 and the scan reads past the end of the source:
\* IndexError, with instruction_pointer left where the scan stopped.
loop_start_skip_raises ==
    /\ Fetch("[")
    /\ memory[memory_pointer] = 0
    /\ LET scan == skip_to_loop_end(instruction_pointer, 1) IN
         /\ scan.raised
         /\ instruction_pointer' = scan.ip
    /\ dispatched' = dispatched + 1
    /\ UNCHANGED <<stack, memory, memory_pointer, need_to_exit, output>>
    /\ Raised("[", "IndexError")

\* instr_loop_start, the cell is not 0.
loop_start_enter ==
    /\ Fetch("[")
    /\ memory[memory_pointer] # 0
    /\ stack' = push(stack, instruction_pointer)
    /\ instruction_pointer' = instruction_pointer + 1
    /\ UNCHANGED <<memory, memory_pointer, need_to_exit, output, inputs>>
    /\ Executed("[")

\* Mutant of loop_end_target: re-enters the loop body without re-testing the guard.
loop_end_target_past_guard(instr_ptr, v, ip) ==
    IF v # 0 THEN instr_ptr + 1 ELSE ip + 1

\* instr_loop_end: where "]" goes with the popped offset instr_ptr and cell value v.
loop_end_target(instr_ptr, v, ip) ==
    IF v # 0 THEN instr_ptr ELSE ip + 1

instr_loop_end ==
    /\ Fetch("]")
    /\ ~is_empty(stack)
    /\ stack' = pop(stack)
    /\ instruction_pointer' =
           loop_end_target(peek(stack), memory[memory_pointer], instruction_pointer)
    /\ UNCHANGED <<memory, memory_pointer, need_to_exit, output, inputs>>
    /\ Executed("]")

\* Mutant of loop_end_raises: "]" with no loop to leave falls through.
loop_end_falls_through ==
    /\ Fetch("]")
    /\ is_empty(stack)
    /\ instruction_pointer' = instruction_pointer + 1
    /\ UNCHANGED <<stack, memory, memory_pointer, need_to_exit, output, inputs>>
    /\ Executed("]")

\* instr_loop_end on an empty stack: Stack.pop raises IndexError.
loop_end_raises ==
    /\ Fetch("]")
    /\ is_empty(stack)
    /\ dispatched' = dispatched + 1
    /\ UNCHANGED <<stack, memory, memory_pointer, instruction_pointer, need_to_exit,
                   output>>
    /\ Raised("]", "IndexError")

\* instr_function_call: is the letter's function declared?
function_declared(c) ==
    function_no(c) < Len(functions)

\* Mutant of return_address: the call site itself.
return_address_call_site(ip) == ip

\* instr_function_call: what a call pushes, self.instruction_pointer + 1.
return_address(ip) == ip + 1

\* instr_function_call, function_no < len(self.functions).
function_call ==
    \E c \in LetterSet :
        /\ Fetch(c)
        /\ function_declared(c)
        /\ stack' = push(stack, return_address(instruction_pointer))
        /\ instruction_pointer' = functions[function_no(c) + 1]
        /\ UNCHANGED <<memory, memory_pointer, need_to_exit, output, inputs>>
        /\ Executed(c)

\* Mutant of function_call_ignored: an undeclared function ends the program.
function_call_ignored_bails ==
    \E c \in LetterSet :
        /\ Fetch(c)
        /\ ~function_declared(c)
        /\ need_to_exit' = TRUE
        /\ UNCHANGED <<stack, memory, memory_pointer, instruction_pointer, output, inputs>>
        /\ Executed(c)

\* instr_function_call, "ignore this function call request".
function_call_ignored ==
    \E c \in LetterSet :
        /\ Fetch(c)
        /\ ~function_declared(c)
        /\ instruction_pointer' = instruction_pointer + 1
        /\ UNCHANGED <<stack, memory, memory_pointer, need_to_exit, output, inputs>>
        /\ Executed(c)

\* instr_return on an empty stack: "exit the program".
return_exit ==
    /\ Fetch("@")
    /\ is_empty(stack)
    /\ need_to_exit' = TRUE
    /\ UNCHANGED <<stack, memory, memory_pointer, instruction_pointer, output, inputs>>
    /\ Executed("@")

\* instr_return otherwise: self.instruction_pointer = self.stack.pop().
return_pop ==
    /\ Fetch("@")
    /\ ~is_empty(stack)
    /\ instruction_pointer' = peek(stack)
    /\ stack' = pop(stack)
    /\ UNCHANGED <<memory, memory_pointer, need_to_exit, output, inputs>>
    /\ Executed("@")

Next ==
    \/ RunCall
    \/ RunReturn
    \/ CycleLimitBreak
    \/ UnknownInstruction
    \/ instr_print
    \/ instr_input
    \/ instr_inc_memory_pointer
    \/ instr_dec_memory_pointer
    \/ instr_inc_memory
    \/ instr_dec_memory
    \/ loop_start_skip
    \/ loop_start_skip_raises
    \/ loop_start_enter
    \/ instr_loop_end
    \/ loop_end_raises
    \/ function_call
    \/ function_call_ignored
    \/ return_exit
    \/ return_pop

Spec == Init /\ [][Next]_vars

\* run() is one sequential loop: whenever a step is possible it is taken.
FairSpec == Spec /\ WF_vars(Next)

\* ------------------------------------------- functions of a source and clones

\* Mutant of function_end: every function runs to the end of the source.
function_end_of_source(src, fs, index) ==
    Len(src) + 1

\* get_function: function_end, for index < len(self.functions).
function_end(src, fs, index) ==
    IF index + 1 < Len(fs) THEN fs[index + 2] ELSE Len(src) + 1

\* get_function: self.source[function_start : function_end - 1].
get_function(src, fs, index) ==
    SubSeq(src, fs[index + 1] + 1, function_end(src, fs, index) - 1)

\* source_no_functions
source_no_functions(src, fs) ==
    IF Len(fs) > 0 THEN SubSeq(src, 1, fs[1] - 1) ELSE src

\* str.split('@'): the pieces between the delimiters, empty ones included.
RECURSIVE SplitFrom(_, _, _)
SplitFrom(src, k, piece) ==
    IF k > Len(src) THEN <<piece>>
    ELSE IF src[k] = "@" THEN <<piece>> \o SplitFrom(src, k + 1, <<>>)
    ELSE SplitFrom(src, k + 1, Append(piece, src[k]))

split(src) == SplitFrom(src, 1, <<>>)

\* '@'.join(pieces)
RECURSIVE join(_)
join(pieces) ==
    IF Len(pieces) = 1 THEN pieces[1]
    ELSE pieces[1] \o <<"@">> \o join(Tail(pieces))

\* set_function: empty functions appended until function index exists.
RECURSIVE pad(_, _, _)
pad(pieces, function_ctr, index) ==
    IF function_ctr < index + 1
    THEN pad(Append(pieces, <<>>), function_ctr + 1, index)
    ELSE pieces

\* Mutant of replace_piece: the piece before the delimiter of function index.
replace_piece_before(pieces, index, function_source) ==
    [pieces EXCEPT ![index + 1] = function_source]

\* set_function: split_source[index + 1] = function_source.
replace_piece(pieces, index, function_source) ==
    [pieces EXCEPT ![index + 2] = function_source]

\* set_function: new_source.
new_source(src, fs, index, function_source) ==
    join(replace_piece(pad(split(src), Len(fs), index), index, function_source))

\* Interpreter(src, *args): the engine __init__ leaves, args being the positional
\* arguments after source in the order cycle_limit, input_function,
\* output_function, on_execute; a parameter without argument takes its default.
Interpreter(src, args) ==
    [made |-> TRUE, source |-> src, functions |-> find_functions(src),
     cycle_limit |-> IF Len(args) >= 1 THEN args[1] ELSE IntValue(0),
     input_function |-> IF Len(args) >= 2 THEN args[2] ELSE NoneValue,
     output_function |-> IF Len(args) >= 3 THEN args[3] ELSE NoneValue,
     on_execute |-> IF Len(args) >= 4 THEN args[4] ELSE NoneValue,
     stack |-> <<>>, memory_pointer |-> 0, instruction_pointer |-> 0,
     cycle_count |-> 0, need_to_exit |-> FALSE, cells_zero |-> TRUE]

\* clone: the kwargs dictionary, in insertion order.  Iterating a dictionary
\* (the * in Interpreter(new_source, *kwargs)) yields its keys.
kwargs(overrides) ==
    (IF overrides.cycle_limit # NoneValue THEN <<StrValue("cycle_limit")>> ELSE <<>>)
    \o (IF overrides.input_function # NoneValue THEN <<StrValue("input_function")>> ELSE <<>>)
    \o (IF overrides.output_function # NoneValue THEN <<StrValue("output_function")>> ELSE <<>>)
    \o (IF overrides.on_execute # NoneValue THEN <<StrValue("on_execute")>> ELSE <<>>)

\* The caller's arguments.
Indices == 0 .. MaxIndex \cup {max_functions - 1}
FunctionSources == {<<>>, <<"+">>, <<"-", ".">>}
SourceOverrides == {<<"-">>, <<"+", "@", ".">>}
OverrideChoices ==
    [cycle_limit : {NoneValue, IntValue(0), IntValue(3)},
     input_function : {NoneValue, CallbackValue("other")},
     output_function : {NoneValue, CallbackValue("other")},
     on_execute : {NoneValue, CallbackValue("other")}]

\* The caller holds an engine and is not inside run().
Callable ==
    /\ pc \in {"idle", "faulted"}
    /\ api.call = "none"

EngineUnchanged ==
    UNCHANGED <<source, functions, stack, memory, memory_pointer, instruction_pointer,
                cycle_limit, cycle_count, need_to_exit, input_function,
                output_function, on_execute, pc, result, fault, runs, dispatched,
                hook_log, output, prev, frames, called, call_in_loop, pending,
                inputs, fault_info>>

\* get_function(index) with a function of that index.
get_function_returns ==
    /\ Callable
    /\ \E index \in Indices :
           /\ index < Len(functions)
           /\ api' = [NoCall EXCEPT !.call = "get_function", !.index = index,
                                    !.text = get_function(source, functions, index)]
    /\ EngineUnchanged

\* get_function(index): self.functions[index] raises IndexError.
get_function_raises ==
    /\ Callable
    /\ \E index \in Indices :
           /\ index >= Len(functions)
           /\ api' = [NoCall EXCEPT !.call = "get_function", !.index = index,
                                    !.raised = "IndexError"]
    /\ EngineUnchanged

source_no_functions_call ==
    /\ Callable
    /\ api' = [NoCall EXCEPT !.call = "source_no_functions",
                             !.text = source_no_functions(source, functions)]
    /\ EngineUnchanged

\* set_function(index, function_source): self.clone(source=new_source).
set_function ==
    /\ Callable
    /\ \E index \in Indices, function_source \in FunctionSources :
           LET src == new_source(source, functions, index, function_source) IN
             api' = [NoCall EXCEPT !.call = "set_function", !.index = index,
                                   !.body = function_source,
                                   !.raised = IF too_many_functions(find_functions(src))
                                              THEN "Exception" ELSE "",
                                   !.engine = IF too_many_functions(find_functions(src))
                                              THEN NoEngine
                                              ELSE Interpreter(src, <<>>)]
    /\ EngineUnchanged

\* clone(**overrides), source kept.
clone ==
    /\ Callable
    /\ \E overrides \in OverrideChoices :
           api' = [NoCall EXCEPT !.call = "clone", !.overrides = overrides,
                                 !.engine = Interpreter(source, kwargs(overrides))]
    /\ EngineUnchanged

\* clone(source=..., **overrides)
clone_with_source ==
    /\ Callable
    /\ \E overrides \in OverrideChoices, src \in SourceOverrides :
           api' = [NoCall EXCEPT !.call = "clone", !.overrides = overrides,
                                 !.text = src,
                                 !.engine = Interpreter(src, kwargs(overrides))]
    /\ EngineUnchanged

\* Programs whose functions are read and replaced: the longer programs (those of
\* test_find_functions, test_get_source_no_functions and test_set_function among
\* them) and the shortest ones.
EditSources ==
    Curated \cup {<<>>, <<".">>, <<"@">>, <<".", "+">>}

EditInit ==
    /\ Init
    /\ source \in EditSources

\* The engine runs as under Next until the caller reads, edits or clones it.
EditNext ==
    \/ api.call = "none" /\ RunCall
    \/ api.call = "none" /\ RunReturn
    \/ api.call = "none" /\ CycleLimitBreak
    \/ api.call = "none" /\ UnknownInstruction
    \/ api.call = "none" /\ instr_print
    \/ api.call = "none" /\ instr_input
    \/ api.call = "none" /\ instr_inc_memory_pointer
    \/ api.call = "none" /\ instr_dec_memory_pointer
    \/ api.call = "none" /\ instr_inc_memory
    \/ api.call = "none" /\ instr_dec_memory
    \/ api.call = "none" /\ loop_start_skip
    \/ api.call = "none" /\ loop_start_skip_raises
    \/ api.call = "none" /\ loop_start_enter
    \/ api.call = "none" /\ instr_loop_end
    \/ api.call = "none" /\ loop_end_raises
    \/ api.call = "none" /\ function_call
    \/ api.call = "none" /\ function_call_ignored
    \/ api.call = "none" /\ return_exit
    \/ api.call = "none" /\ return_pop
    \/ get_function_returns
    \/ get_function_raises
    \/ source_no_functions_call
    \/ set_function
    \/ clone
    \/ clone_with_source

\* An engine is constructed, run, read, edited and cloned.
EditSpec == EditInit /\ [][EditNext]_vars

\* ===================================================================
\* Properties
\* ===================================================================

Last(s) == s[Len(s)]
ButLast(s) == SubSeq(s, 1, Len(s) - 1)

\* The last handler entered returned normally (run() was not left by an exception).
LastCompleted ==
    prev.instruction # "" /\ pc # "faulted"

\* Offsets of the "[" that are open just before offset i, outermost first
\* (bracket structure of the text alone; an unmatched "]" closes nothing).
RECURSIVE OpenAt(_, _)
OpenAt(src, i) ==
    IF i = 0 THEN <<>>
    ELSE LET before == OpenAt(src, i - 1) IN
         IF src[i] = "[" THEN Append(before, i - 1)
         ELSE IF src[i] = "]" /\ before # <<>> THEN SubSeq(before, 1, Len(before) - 1)
         ELSE before

\* No "]" without an open "[" before it.
RECURSIVE NoStrayClose(_, _)
NoStrayClose(src, i) ==
    \/ i = 0
    \/ /\ NoStrayClose(src, i - 1)
       /\ src[i] = "]" => OpenAt(src, i - 1) # <<>>

Balanced(src) ==
    NoStrayClose(src, Len(src)) /\ OpenAt(src, Len(src)) = <<>>

\* ------------------------------------------------------------------- C1

\* What C1 says of a completed "]" and of the stack depth.
LoopEndPopsMatch ==
    /\ (LastCompleted /\ prev.instruction = "]") =>
           LET open == Last(OpenAt(source, prev.ip)) IN
               /\ Last(prev.stack) = open
               /\ stack = ButLast(prev.stack)
               /\ instruction_pointer =
                      IF prev.memory[prev.mp] # 0 THEN open ELSE prev.ip + 1
    /\ Len(stack) = Len(OpenAt(source, instruction_pointer))

\* C1 as stated: with balanced brackets and no call or "@" executed between a
\* "[" and its "]", every "]" pops the offset of its matching "[" (going back to
\* it on a nonzero cell, one further otherwise) and the stack depth is the number
\* of open loops.
C1_AsStated ==
    (Balanced(source) /\ ~call_in_loop) => LoopEndPopsMatch

\* C1 amended: the same, for runs in which no declared function has been called
\* at all (a call frame is on the stack beside the loop frames, and a function
\* body may start inside a loop's brackets).
C1_LoopEndPopsMatchingStart ==
    (Balanced(source) /\ ~called /\ ~call_in_loop) => LoopEndPopsMatch

\* An inner "]" of a nested loop has just jumped back to its "[".
C1_Witness ==
    /\ Balanced(source) /\ ~called /\ ~call_in_loop
    /\ LastCompleted /\ prev.instruction = "]"
    /\ Len(prev.stack) = 2
    /\ prev.memory[prev.mp] # 0
    /\ instruction_pointer = Last(prev.stack)

\* ------------------------------------------------------------------- C2

\* Offsets of the "]" that close the "[" at offset i (at most one).
ClosersOf(src, i) ==
    {j \in i + 1 .. Len(src) - 1 :
        /\ src[j + 1] = "]"
        /\ OpenAt(src, j) # <<>>
        /\ Last(OpenAt(src, j)) = i}

\* C2: "[" on a zero cell whose matching "]" exists moves the instruction pointer
\* one past that "]" in a single step: nothing is pushed, no cell and not the
\* memory pointer change, the trace callback fires once (for the "[") and the
\* step counts as one cycle.
C2_SkipLandsPastMatchingClose ==
    (/\ prev.instruction = "["
     /\ prev.memory[prev.mp] = 0
     /\ ClosersOf(source, prev.ip) # {}) =>
        /\ pc # "faulted"
        /\ \A j \in ClosersOf(source, prev.ip) : instruction_pointer = j + 1
        /\ stack = prev.stack
        /\ memory = prev.memory
        /\ memory_pointer = prev.mp
        /\ cycle_count = prev.cycles + 1
        /\ Len(hook_log) = prev.hooks + (IF on_execute THEN 1 ELSE 0)
        /\ on_execute => Last(hook_log) =
               [instruction |-> "[", ip |-> instruction_pointer, mp |-> prev.mp]

\* A skipped loop with a loop nested in it, seen by the trace callback.
C2_Witness ==
    /\ prev.instruction = "["
    /\ prev.memory[prev.mp] = 0
    /\ pc # "faulted"
    /\ on_execute
    /\ \E j \in ClosersOf(source, prev.ip) :
           /\ instruction_pointer = j + 1
           /\ \E k \in prev.ip + 1 .. j - 1 : source[k + 1] = "]"

\* ------------------------------------------------------------------- C3

\* Offset one past the n-th "@" of the text (n from 1).
StartOfFunction(src, n) ==
    CHOOSE p \in 1 .. Len(src) :
        /\ src[p] = "@"
        /\ Cardinality({q \in 1 .. p : src[q] = "@"}) = n

DelimiterCount(src) == Cardinality({q \in 1 .. Len(src) : src[q] = "@"})

\* The index of a call letter, by position in the alphabet.
IndexOf(c) ==
    Cardinality({k \in 1 .. Len(Letters) :
                    \E m \in 1 .. Len(Letters) : Letters[m] = c /\ k < m})

\* A declared call pushes the offset after the letter and enters the function.
CallEntersFunction ==
    (/\ LastCompleted
     /\ prev.instruction \in LetterSet
     /\ IndexOf(prev.instruction) < DelimiterCount(source)) =>
        /\ stack = Append(prev.stack, prev.ip + 1)
        /\ instruction_pointer = StartOfFunction(source, IndexOf(prev.instruction) + 1)

\* The "@" just executed found a call in progress with no loop frame of its own open.
ReturnReached ==
    /\ LastCompleted
    /\ prev.instruction = "@"
    /\ prev.pending # <<>>
    /\ Last(prev.pending).open = 0

ReturnedToCaller ==
    /\ instruction_pointer = Last(prev.pending).site + 1
    /\ stack = Last(prev.pending).below
    /\ ~need_to_exit

\* C3 as stated: a declared call pushes instruction pointer + 1 and enters the
\* function; an "@" reached with every loop frame opened since the call closed
\* returns to the offset after the letter, with the stack as before the call and
\* the halt flag unset.
C3_AsStated ==
    /\ CallEntersFunction
    /\ ReturnReached => ReturnedToCaller

\* C3 amended: the same, provided no "]" of the function has popped a frame that
\* was not pushed since the call (such a "]" takes the call's own frame).
C3_CallAndReturnPair ==
    /\ CallEntersFunction
    /\ (ReturnReached /\ ~Last(prev.pending).stolen) => ReturnedToCaller

\* A nested call has returned, past a loop run inside the function, into the
\* function that called it.
C3_Witness ==
    /\ ReturnReached
    /\ ~Last(prev.pending).stolen
    /\ Len(prev.pending) = 2
    /\ \E k \in 1 .. Len(hook_log) : hook_log[k].instruction = "]"
    /\ instruction_pointer = Last(prev.pending).site + 1
    /\ stack # <<>>

\* ------------------------------------------------------------------- C4

\* C4: the halt flag is set only by an "@" executed on an empty stack and is
\* never cleared; once it is set no handler is entered, and wherever it is set
\* the stack is empty and the instruction pointer is on the "@" that set it.
C4_HaltOnlyByExitOnEmptyStack ==
    [][ /\ (~need_to_exit /\ need_to_exit') =>
               /\ pc = "running"
               /\ At(instruction_pointer) = "@"
               /\ stack = <<>>
        /\ need_to_exit =>
               /\ need_to_exit'
               /\ dispatched' = dispatched
               /\ cycle_count' = cycle_count
               /\ hook_log' = hook_log
        /\ need_to_exit' =>
               /\ stack' = <<>>
               /\ pc' # "faulted"
               /\ instruction_pointer' < Len(source)
               /\ source[instruction_pointer' + 1] = "@"
               /\ prev'.instruction = "@"
               /\ prev'.ip = instruction_pointer'
               /\ ~prev'.halt
               /\ cycle_count' = prev'.cycles + 1
      ]_vars

\* run() has returned halted, run() was called again, and the text after the
\* "@" (a function body) was never entered.
C4_Witness ==
    /\ need_to_exit
    /\ pc = "idle"
    /\ result = "halted"
    /\ runs = MaxRuns
    /\ instruction_pointer + 1 < Len(source)
    /\ cycle_count > 1

\* ------------------------------------------------------------------- C5

\* run() has returned because the instruction pointer ran off the end.
FellOffEnd ==
    /\ pc = "idle"
    /\ result = "exhausted"
    /\ instruction_pointer >= Len(source)
    /\ ~need_to_exit

\* C5 as stated: when run() returns by falling off the end, the control stack
\* is empty.
C5_AsStated ==
    FellOffEnd => stack = <<>>

\* C5 amended: when run() returns by falling off the end of a source whose
\* brackets are balanced, and no declared function was called, the control
\* stack is empty.
C5_EmptyStackAtEndWithoutCalls ==
    (FellOffEnd /\ Balanced(source) /\ ~called) => stack = <<>>

\* A run that went through a loop and then fell off the end.
C5_Witness ==
    /\ FellOffEnd /\ Balanced(source) /\ ~called
    /\ stack = <<>>
    /\ \E k \in 1 .. Len(hook_log) : hook_log[k].instruction = "]"

\* ------------------------------------------------------------------- C6

\* C6 as stated: whenever the instruction pointer is at or past the end of the
\* source, no exception has left run(), and a run() that has returned there
\* returned exhausted; the scan of "[" on a zero cell included.
C6_AsStated ==
    instruction_pointer >= Len(source) =>
        /\ pc # "faulted"
        /\ (pc = "idle" /\ runs > 0) => result = "exhausted"

\* ------------------------------------------------------------------- C7

\* C7: with a nonzero cycle limit run() always ends, the cycle count never
\* exceeds the limit, no handler is entered once the count has reached it, and
\* the cycle-limit stop changes nothing and raises nothing; with limit 0 there
\* is no cycle-limit stop.
C7_CycleLimitStops ==
    /\ [](cycle_limit # 0 => cycle_count <= cycle_limit)
    /\ [](cycle_limit = 0 => result # "cycle-limited")
    /\ [][ /\ (cycle_limit # 0 /\ cycle_count >= cycle_limit) =>
                  /\ dispatched' = dispatched
                  /\ prev' = prev
                  /\ pc' # "faulted"
           /\ (pc = "running" /\ result' = "cycle-limited" /\ pc' = "idle") =>
                  /\ cycle_count = cycle_limit
                  /\ fault' = ""
                  /\ UNCHANGED <<memory, memory_pointer, instruction_pointer, stack,
                                 cycle_count, need_to_exit, hook_log, output>>
         ]_vars
    /\ (cycle_limit # 0 /\ pc = "running") ~> (pc # "running")

\* A run stopped by the cycle limit inside a call or a loop.
C7_Witness ==
    /\ cycle_limit # 0
    /\ pc = "idle"
    /\ result = "cycle-limited"
    /\ cycle_count = cycle_limit
    /\ stack # <<>>
    /\ instruction_pointer < Len(source)

\* ------------------------------------------------------------------- C8

Min(a, b) == IF a < b THEN a ELSE b
Max(a, b) == IF a > b THEN a ELSE b

\* C8: the memory pointer stays in 0 .. memory_size - 1; ">" and "<" clamp it,
\* advance the instruction pointer by one and change no cell and no stack entry.
C8_PointerClamped ==
    /\ memory_pointer \in 0 .. memory_size - 1
    /\ prev.instruction = ">" =>
           /\ memory_pointer = Min(prev.mp + 1, memory_size - 1)
           /\ instruction_pointer = prev.ip + 1
           /\ memory = prev.memory
           /\ stack = prev.stack
    /\ prev.instruction = "<" =>
           /\ memory_pointer = Max(prev.mp - 1, 0)
           /\ instruction_pointer = prev.ip + 1
           /\ memory = prev.memory
           /\ stack = prev.stack

\* ">" executed on the last cell.
C8_Witness ==
    /\ prev.instruction = ">"
    /\ prev.mp = memory_size - 1
    /\ memory_pointer = memory_size - 1

\* ------------------------------------------------------------------- C9

\* C9: every cell is in 0 .. 255 and starts at 0; "+" and "-" add and subtract
\* one modulo 256, "," stores what the input callback returned, and no
\* instruction changes a cell other than the one at the memory pointer.
C9_CellsAreBytes ==
    /\ \A i \in 0 .. memory_size - 1 : memory[i] \in 0 .. max_memory_value
    /\ cycle_count = 0 => \A i \in 0 .. memory_size - 1 : memory[i] = 0
    /\ \A i \in 0 .. memory_size - 1 : i # prev.mp => memory[i] = prev.memory[i]
    /\ prev.instruction = "+" =>
           memory[prev.mp] = (prev.memory[prev.mp] + 1) % (max_memory_value + 1)
    /\ prev.instruction = "-" =>
           memory[prev.mp] = (prev.memory[prev.mp] + max_memory_value) % (max_memory_value + 1)
    /\ (prev.instruction = "," /\ input_function) =>
           /\ inputs # <<>>
           /\ memory[prev.mp] = Last(inputs)
    /\ (prev.instruction \notin {"+", "-", ","} \/ (prev.instruction = "," /\ ~input_function)) =>
           memory = prev.memory

\* "+" executed on a cell holding 255.
C9_Witness ==
    /\ prev.instruction = "+"
    /\ prev.memory[prev.mp] = max_memory_value
    /\ memory[prev.mp] = 0
    /\ prev.mp > 0

\* ------------------------------------------------------------------ C10

\* C10: a letter whose index is not below the number of declared functions only
\* advances the instruction pointer by one.
C10_UndeclaredCallIsNoOp ==
    (/\ prev.instruction \in LetterSet
     /\ IndexOf(prev.instruction) >= DelimiterCount(source)) =>
        /\ pc # "faulted"
        /\ instruction_pointer = prev.ip + 1
        /\ memory = prev.memory
        /\ memory_pointer = prev.mp
        /\ stack = prev.stack
        /\ need_to_exit = prev.halt

\* The letter whose index equals the number of declared functions was executed.
C10_Witness ==
    /\ prev.instruction \in LetterSet
    /\ DelimiterCount(source) > 0
    /\ IndexOf(prev.instruction) = DelimiterCount(source)
    /\ instruction_pointer = prev.ip + 1

\* ------------------------------------------------------------------ C11

\* C11 as stated: a character outside the instruction set, when fetched, stops
\* the run with a fault that reports the character and its offset, and changes
\* nothing (no cycle counted, trace callback not invoked); that fault comes from
\* nothing but the character at the instruction pointer.
C11_AsStated ==
    /\ (prev.instruction # "" /\ prev.instruction \notin instruction_set) =>
           /\ pc = "faulted"
           /\ fault_info.character = prev.instruction
           /\ fault_info.has_offset
           /\ fault_info.offset = prev.ip
           /\ memory = prev.memory
           /\ memory_pointer = prev.mp
           /\ instruction_pointer = prev.ip
           /\ stack = prev.stack
           /\ cycle_count = prev.cycles
           /\ Len(hook_log) = prev.hooks
    /\ (pc = "faulted" /\ fault = "KeyError") =>
           /\ prev.instruction \notin instruction_set
           /\ source[instruction_pointer + 1] = prev.instruction

\* ------------------------------------------------------------------ C12

\* C12: "]" executed on an empty control stack stops the run with a fault,
\* whatever the cell holds, and changes nothing.
C12_LoopEndOnEmptyStackFaults ==
    (prev.instruction = "]" /\ prev.stack = <<>>) =>
        /\ pc = "faulted"
        /\ fault = "IndexError"
        /\ memory = prev.memory
        /\ memory_pointer = prev.mp
        /\ instruction_pointer = prev.ip
        /\ stack = <<>>
        /\ cycle_count = prev.cycles
        /\ Len(hook_log) = prev.hooks

\* "]" on an empty stack with a nonzero cell, after other instructions ran.
C12_Witness ==
    /\ pc = "faulted"
    /\ prev.instruction = "]"
    /\ prev.stack = <<>>
    /\ prev.memory[prev.mp] # 0
    /\ cycle_count > 0

\* ------------------------------------------------------------------ C13

\* C13: construction fails exactly when the source holds more than 26 "@",
\* and then nothing has been executed.
C13_RejectsMoreThan26Functions ==
    /\ pc = "rejected" <=> DelimiterCount(source) > 26
    /\ pc = "rejected" =>
           /\ fault # ""
           /\ runs = 0
           /\ dispatched = 0
           /\ cycle_count = 0

\* A source of 27 "@" was refused.
C13_Witness ==
    /\ pc = "rejected"
    /\ DelimiterCount(source) = 27

\* A source of exactly 26 "@" was accepted and run.
C13_AcceptedAtLimit ==
    /\ DelimiterCount(source) = 26
    /\ pc = "idle"
    /\ runs > 0

\* ------------------------------------------------------------------- C17

\* Handlers that raised after being entered: the lookup's KeyError precedes the
\* handler, every IndexError comes from inside one.
RaisedInHandler ==
    IF pc = "faulted" /\ fault = "IndexError" THEN 1 ELSE 0

\* C17: cycle_count starts at 0, never decreases, and equals the number of
\* instructions whose handler has returned, which is the number of trace
\* callback invocations; every instruction counts one, whatever it is (a "["
\* reached again from "]", a "[" that skips, an ignored letter, the halting
\* "@"), and an instruction that raises is neither counted nor traced.
\* "+[+[.+]]." under cycle limit 2000 runs off the end with cycle_count 1021.
C17_CycleCountCountsInstructions ==
    /\ [](runs = 0 => cycle_count = 0)
    /\ [](cycle_count = dispatched - RaisedInHandler)
    /\ [](on_execute => Len(hook_log) = cycle_count)
    /\ [](prev.instruction # "" =>
              /\ pc # "faulted" => cycle_count = prev.cycles + 1
              /\ pc = "faulted" => cycle_count = prev.cycles)
    /\ []((/\ source = loop_with_inner
           /\ cycle_limit = test_cycle_limit
           /\ runs >= 1
           /\ pc = "idle") =>
              /\ result = "exhausted"
              /\ cycle_count = 1021)
    /\ [][cycle_count' \in {cycle_count, cycle_count + 1}]_vars

\* test_loop_with_inner has run to its end, traced.
C17_Witness ==
    /\ source = loop_with_inner
    /\ cycle_limit = test_cycle_limit
    /\ pc = "idle"
    /\ result = "exhausted"
    /\ instruction_pointer = Len(source)
    /\ cycle_count = 1021
    /\ on_execute
    /\ Len(hook_log) = 1021

\* Each case the claim lists has been counted: a skipping "[", a "[" reached
\* again from "]", an ignored letter and a halting "@".
C17_SkipCounted ==
    /\ prev.instruction = "["
    /\ prev.memory[prev.mp] = 0
    /\ pc # "faulted"
    /\ cycle_count = prev.cycles + 1

C17_HaltCounted ==
    /\ prev.instruction = "@"
    /\ need_to_exit
    /\ cycle_count = prev.cycles + 1

\* ------------------------------------------------------------------- C18

\* The "." instructions among the traced ones.
PrintsTraced ==
    {k \in 1 .. Len(hook_log) : hook_log[k].instruction = "."}

\* C18: the output callback receives, in order, the current cell at each
\* executed "." : one invocation per ".", none for any other instruction; "."
\* itself only advances the instruction pointer by one, with or without an
\* output callback.
C18_OutputIsCellAtEachPrint ==
    /\ [](~output_function => output = <<>>)
    /\ []((output_function /\ on_execute) => Len(output) = Cardinality(PrintsTraced))
    /\ [](prev.instruction = "." =>
              /\ pc # "faulted"
              /\ instruction_pointer = prev.ip + 1
              /\ memory = prev.memory
              /\ memory_pointer = prev.mp
              /\ stack = prev.stack
              /\ need_to_exit = prev.halt
              /\ cycle_count = prev.cycles + 1
              /\ output_function =>
                     /\ Len(output) = prev.outputs + 1
                     /\ Last(output) = prev.memory[prev.mp])
    /\ [](prev.instruction # "." => Len(output) = prev.outputs)
    /\ [][output' # output =>
              /\ pc = "running"
              /\ At(instruction_pointer) = "."
              /\ output' = Append(output, memory[memory_pointer])]_vars

\* Two "." have delivered different values, the first from a cell other than
\* cell 0.
C18_Witness ==
    /\ prev.instruction = "."
    /\ output_function
    /\ Len(output) = 2
    /\ output[1] # output[2]
    /\ output[1] # 0
    /\ output[2] = memory[memory_pointer]
    /\ output[1] # memory[memory_pointer]

\* "." without an output callback.
C18_SilentPrint ==
    /\ prev.instruction = "."
    /\ ~output_function
    /\ instruction_pointer = prev.ip + 1

\* ------------------------------------------------------------------- C19

\* C19: in every state that is not faulted, whatever the source, the
\* instruction pointer is in 0 .. len(source) and every control-stack entry is an
\* offset in 0 .. len(source): a loop frame is the offset of a "[", a call frame
\* is one past the offset of a call letter.
C19_PointerAndFramesInSource ==
    pc # "faulted" =>
        /\ instruction_pointer \in 0 .. Len(source)
        /\ Len(frames) = Len(stack)
        /\ \A k \in 1 .. Len(stack) :
               /\ stack[k] \in 0 .. Len(source)
               /\ frames[k] = "loop" =>
                      /\ stack[k] < Len(source)
                      /\ At(stack[k]) = "["
               /\ frames[k] = "call" =>
                      /\ stack[k] >= 1
                      /\ At(stack[k] - 1) \in LetterSet

\* An unbalanced source with functions holds a loop frame above a call frame whose
\* return address is the end of the source.
C19_Witness ==
    /\ pc # "faulted"
    /\ ~Balanced(source)
    /\ Len(stack) >= 2
    /\ \E k \in 1 .. Len(stack) : frames[k] = "call" /\ stack[k] = Len(source)
    /\ frames[Len(stack)] = "loop"

\* ------------------------------------------------------------------- C20

\* run() has returned: halted, exhausted or cycle-limited.
Terminal ==
    runs >= 1 /\ result # "none"

\* C20: once run() has returned because the engine is halted, exhausted or
\* cycle-limited, calling run() again dispatches no instruction, invokes no
\* callback and changes nothing of the engine (tape, memory pointer, instruction
\* pointer, control stack, cycle count, halt flag); it returns for the same reason.
C20_TerminalStatesAbsorb ==
    [][Terminal =>
           /\ UNCHANGED <<memory, memory_pointer, instruction_pointer, stack,
                          cycle_count, need_to_exit>>
           /\ UNCHANGED <<dispatched, hook_log, output, inputs, prev>>
           /\ pc' # "faulted"
           /\ result' = result]_vars

\* run() was called again on a cycle-limited engine and has returned.
C20_Witness ==
    /\ runs = 2
    /\ pc = "idle"
    /\ result = "cycle-limited"
    /\ cycle_count = cycle_limit
    /\ dispatched = cycle_limit

\* run() was called again on a halted and on an exhausted engine.
C20_HaltedAgain ==
    runs = 2 /\ pc = "idle" /\ result = "halted" /\ dispatched > 0

C20_ExhaustedAgain ==
    runs = 2 /\ pc = "idle" /\ result = "exhausted" /\ dispatched > 0

\* ------------------------------------------------------------------- C14

\* prefix() followed by "@" + body(i) for i = from .. n - 1.
RECURSIVE BodiesFrom(_, _, _)
BodiesFrom(src, fs, from) ==
    IF from >= Len(fs) THEN <<>>
    ELSE <<"@">> \o get_function(src, fs, from) \o BodiesFrom(src, fs, from + 1)

Rebuilt(src, fs) ==
    source_no_functions(src, fs) \o BodiesFrom(src, fs, 0)

HasNoDelimiter(text) ==
    \A k \in 1 .. Len(text) : text[k] # "@"

\* C14: an accepted source with n delimiters has a function table of n entries in
\* source order, entry i being the offset one past the i-th "@"; the prefix and
\* the bodies 0 .. n-1 are the "@"-free segments of the source, so the prefix
\* followed by "@" + body(i) for i = 0 .. n-1 is the source again; body(i) for
\* i >= n is an IndexError.
C14_FunctionTableAndSegments ==
    pc # "rejected" =>
        LET n == DelimiterCount(source) IN
        /\ Len(functions) = n
        /\ \A k \in 1 .. n :
               /\ functions[k] \in 1 .. Len(source)
               /\ source[functions[k]] = "@"
               /\ Cardinality({j \in 1 .. functions[k] : source[j] = "@"}) = k
        /\ HasNoDelimiter(source_no_functions(source, functions))
        /\ \A i \in 0 .. n - 1 :
               /\ HasNoDelimiter(get_function(source, functions, i))
               /\ get_function(source, functions, i) = split(source)[i + 2]
        /\ source_no_functions(source, functions) = split(source)[1]
        /\ Rebuilt(source, functions) = source
        /\ api.call = "get_function" =>
               /\ api.raised = "IndexError" <=> api.index >= n
               /\ api.raised = "" <=> api.index < n
               /\ api.index < n => api.text = split(source)[api.index + 2]
        /\ api.call = "source_no_functions" =>
               /\ api.raised = ""
               /\ api.text = split(source)[1]

\* The third function of test_find_functions' three-function program was read.
C14_Witness ==
    /\ api.call = "get_function"
    /\ Len(functions) = 3
    /\ api.index = 2
    /\ api.raised = ""
    /\ api.text = <<"[", "+", "]", ".">>

\* A body was asked for beyond the table, and a prefix of a source with functions.
C14_BeyondTable ==
    /\ api.call = "get_function"
    /\ Len(functions) >= 1
    /\ api.index = Len(functions)
    /\ api.raised = "IndexError"

C14_PrefixRead ==
    /\ api.call = "source_no_functions"
    /\ Len(functions) >= 1
    /\ api.text # <<>>
    /\ api.text # source

\* ------------------------------------------------------------------- C15

\* C15: for a program with n functions, an index i in 0 .. 25 and a new body
\* without "@", set_function(i, body) returns a new program with max(n, i+1)
\* functions whose body i is the new body; its prefix and every other body that
\* existed are unchanged and every synthesized body is empty; the program it was
\* called on keeps its source and function table.
C15_SetFunctionReplacesOneBody ==
    /\ [](api.call = "set_function" =>
              LET n == Len(functions)
                  i == api.index
                  e == api.engine
              IN  /\ api.raised = ""
                  /\ e.made
                  /\ e.functions = find_functions(e.source)
                  /\ Len(e.functions) = Max(n, i + 1)
                  /\ get_function(e.source, e.functions, i) = api.body
                  /\ source_no_functions(e.source, e.functions)
                         = source_no_functions(source, functions)
                  /\ \A j \in 0 .. Max(n, i + 1) - 1 :
                         j # i => get_function(e.source, e.functions, j)
                                      = IF j < n THEN get_function(source, functions, j)
                                        ELSE <<>>)
    /\ [][api'.call = "set_function" => UNCHANGED <<source, functions>>]_vars

\* A function was set two places beyond the table of a program with functions.
C15_Witness ==
    /\ api.call = "set_function"
    /\ Len(functions) = 1
    /\ get_function(source, functions, 0) # <<>>
    /\ api.index = 3
    /\ api.body = <<"-", ".">>
    /\ Len(api.engine.functions) = 4

\* The last permitted index, and the replacement of an existing body.
C15_LastIndex ==
    /\ api.call = "set_function"
    /\ Len(functions) = 0
    /\ api.index = max_functions - 1
    /\ Len(api.engine.functions) = max_functions

C15_Replaced ==
    /\ api.call = "set_function"
    /\ source = <<".", "@", "+">>
    /\ api.index = 0
    /\ api.engine.source = <<".", "@", "-", ".">>

\* ------------------------------------------------------------------- C16

\* The value of a callback attribute of the engine clone() is called on.
Configured(given, name) ==
    IF given THEN CallbackValue(name) ELSE NoneValue

Overridden(override, original) ==
    IF override # NoneValue THEN override ELSE original

\* The clone is a new engine in the initial execution state.
CloneIsFresh ==
    api.call = "clone" =>
        /\ api.raised = ""
        /\ api.engine.made
        /\ api.engine.source = IF api.text # <<>> THEN api.text ELSE source
        /\ api.engine.functions = find_functions(api.engine.source)
        /\ api.engine.instruction_pointer = 0
        /\ api.engine.cycle_count = 0
        /\ api.engine.memory_pointer = 0
        /\ api.engine.cells_zero
        /\ api.engine.stack = <<>>
        /\ ~api.engine.need_to_exit

\* C16: clone(overrides) returns a new engine in the initial execution state
\* whose source, cycle limit, input callback, output callback and trace callback
\* are each the override when one is given and the original's value otherwise.
C16_AsStated ==
    /\ CloneIsFresh
    /\ api.call = "clone" =>
           /\ api.engine.cycle_limit
                  = Overridden(api.overrides.cycle_limit, IntValue(cycle_limit))
           /\ api.engine.input_function
                  = Overridden(api.overrides.input_function,
                               Configured(input_function, "input_function"))
           /\ api.engine.output_function
                  = Overridden(api.overrides.output_function,
                               Configured(output_function, "output_function"))
           /\ api.engine.on_execute
                  = Overridden(api.overrides.on_execute,
                               Configured(on_execute, "on_execute"))

\* What clone() does: the settings of the clone are the defaults of __init__,
\* except that the names of the overrides given fill cycle_limit, input_function,
\* output_function and on_execute in that order.
C16_CloneTakesKeyNames ==
    /\ CloneIsFresh
    /\ api.call = "clone" =>
           LET names == kwargs(api.overrides)
               e == api.engine
           IN  /\ e.cycle_limit = IF Len(names) >= 1 THEN names[1] ELSE IntValue(0)
               /\ e.input_function = IF Len(names) >= 2 THEN names[2] ELSE NoneValue
               /\ e.output_function = IF Len(names) >= 3 THEN names[3] ELSE NoneValue
               /\ e.on_execute = IF Len(names) >= 4 THEN names[4] ELSE NoneValue
               /\ \A v \in {e.cycle_limit, e.input_function, e.output_function,
                            e.on_execute} : v.kind # "callback"

\* clone() without arguments of an engine that has a cycle limit and callbacks
\* and has run.
C16_PlainCloneOfConfigured ==
    /\ api.call = "clone"
    /\ api.overrides = NoOverrides
    /\ api.text = <<>>
    /\ cycle_limit # 0
    /\ on_execute
    /\ cycle_count > 0
    /\ api.engine.cycle_limit = IntValue(0)
    /\ api.engine.on_execute = NoneValue

====
